---- MODULE Spec2Model ----
(***************************************************************************)
(* Model of the Mindual web client (src/web/src/App.jsx): the calendar     *)
(* grid computed from the reference date, and the chat submission flow     *)
(* (handleSubmit) interleaved with the file reader, the /ask response and  *)
(* the calendar event fetches.                                             *)
(*                                                                         *)
(* A handler reads the state of the latest render.  Message ids, which are *)
(* timestamps, are left out of the messages.  Dates are local midnights,   *)
(* counted in days; time zone shifts are not modelled.                     *)
(***************************************************************************)
EXTENDS Integers, Sequences, FiniteSets

VARIABLES
    now,            \* the system clock's civil date read by `new Date()`
    today,          \* useMemo today: [time |-> day number since 1970-01-01]
    calendar,       \* useMemo calendar: [label, cells]
    messages,       \* useState messages: the stored chat sequence
    question,       \* useState question: the textarea's text
    loading,        \* useState loading
    imageFile,      \* useState imageFile: the attached File, or NULL
    imagePreviewUrl,\* useState imagePreviewUrl: a data URL, or NULL
    inputValue,     \* fileInputRef.current.value
    calendarEvents, \* useState calendarEvents
    readers,        \* FileReaders whose loadend has not fired yet, per file
    askReqs,        \* POST /ask requests in flight
    calReqs,        \* GET /calendar/events requests in flight, by caller
    pc,             \* where the running handleSubmit is suspended
    lastEvent       \* the handler or callback that ran last, with what a
                    \* fetch delivered to it: [name, input]

\* null, for the state that holds a file, a file name or a data URL.
NULL == "null"

\* A memoized value before the first render has computed it.
NotComputed == [computed |-> FALSE]

\* The empty slot of the grid (cells.push(null)).
NullCell == [empty |-> TRUE]

(***************************************************************************)
(* Bounds of the model.                                                    *)
(***************************************************************************)
MinYear == 2022
MaxYear == 2025
MaxSubmissions == 1     \* submissions answered in one run
MaxQuestionLen == 1     \* symbols typed into the textarea
MaxReaders == 1         \* FileReaders pending at once

\* Years the clock is drawn from: a window plus the century and leap cases.
Years == (MinYear..MaxYear) \cup {1900, 1970, 1999, 2000, 2100, 2400}

(***************************************************************************)
(* The Gregorian calendar, stated independently of the Date object: the    *)
(* reference the grid is compared with.                                    *)
(***************************************************************************)
RefIsLeap(y) == (y % 4 = 0 /\ y % 100 # 0) \/ y % 400 = 0

RefDaysInMonth(y, m) ==
    IF m = 1 THEN (IF RefIsLeap(y) THEN 29 ELSE 28)
    ELSE IF m \in {3, 5, 8, 10} THEN 30 ELSE 31

\* Sakamoto's congruence; m is a month index 0..11, Sunday = 0.
RefWeekday(y, m, d) ==
    LET t == <<0, 3, 2, 5, 0, 3, 5, 1, 4, 6, 2, 4>>
        yy == IF m < 2 THEN y - 1 ELSE y
    IN (yy + (yy \div 4) - (yy \div 100) + (yy \div 400) + t[m + 1] + d) % 7

ClockDates ==
    { c \in [year : Years, month : 0..11, day : 1..31] :
        c.day <= RefDaysInMonth(c.year, c.month) }

(***************************************************************************)
(* The Date object, as ECMAScript computes it (local midnight, day numbers)*)
(***************************************************************************)
DayFromYear(y) ==
    365 * (y - 1970) + ((y - 1969) \div 4) - ((y - 1901) \div 100)
        + ((y - 1601) \div 400)

DaysInYear(y) == DayFromYear(y + 1) - DayFromYear(y)

\* Days before month index mn in a year of the given length.
DaysBeforeMonth(mn, len) ==
    LET base == <<0, 31, 59, 90, 120, 151, 181, 212, 243, 273, 304, 334>>
    IN base[mn + 1] + (IF mn >= 2 /\ len = 366 THEN 1 ELSE 0)

\* MakeDay: month and date may overflow or underflow.
MakeDay(year, month, date) ==
    LET ym == year + (month \div 12)
        mn == month % 12
    IN DayFromYear(ym) + DaysBeforeMonth(mn, DaysInYear(ym)) + date - 1

\* new Date(year, monthIndex, day): years 0..99 mean 1900..1999.
NewDate(year, monthIndex, day) ==
    LET yr == IF year >= 0 /\ year <= 99 THEN 1900 + year ELSE year
    IN MakeDay(yr, monthIndex, day)

YearFromTime(t) ==
    LET lo == 1970 + (t \div 366) - 1
        hi == 1970 + (t \div 365) + 1
    IN CHOOSE y \in lo..hi : DayFromYear(y) <= t /\ t < DayFromYear(y + 1)

MonthFromTime(t) ==
    LET y == YearFromTime(t)
        dwy == t - DayFromYear(y)
        len == DaysInYear(y)
    IN CHOOSE mn \in 0..11 :
          /\ DaysBeforeMonth(mn, len) <= dwy
          /\ (mn = 11 \/ dwy < DaysBeforeMonth(mn + 1, len))

DateFromTime(t) ==
    LET y == YearFromTime(t)
    IN t - DayFromYear(y) - DaysBeforeMonth(MonthFromTime(t), DaysInYear(y)) + 1

getFullYear(t) == YearFromTime(t)
getMonth(t) == MonthFromTime(t)
getDate(t) == DateFromTime(t)
getDay(t) == (t + 4) % 7

\* `${n}`.padStart(2, '0'), as the sequence of its digits.
PadStart2(n) == IF n < 10 THEN <<0, n>> ELSE <<n \div 10, n % 10>>

formatISODate(date) ==
    <<getFullYear(date), "-">> \o PadStart2(getMonth(date) + 1) \o <<"-">>
        \o PadStart2(getDate(date))

\* useMemo today: new Date(now.getFullYear(), now.getMonth(), now.getDate())
Today(clock) ==
    [computed |-> TRUE, time |-> NewDate(clock.year, clock.month, clock.day)]

LeadingCells(startWeekday) == [i \in 1..startWeekday |-> NullCell]

DayCells(year, monthIndex, daysInMonth, ref) ==
    [day \in 1..daysInMonth |->
        [key |-> formatISODate(NewDate(year, monthIndex, day)),
         label |-> day,
         isToday |-> (day = getDate(ref))]]

\* while (cells.length % 7 !== 0) cells.push(null)
TrailingCells(len) == [i \in 1..((7 - (len % 7)) % 7) |-> NullCell]

CalendarCellsShifted(ref) ==
    LET year == getFullYear(ref)
        monthIndex == getMonth(ref)
        startWeekday == getDay(NewDate(year, monthIndex, 1))
        daysInMonth == getDate(NewDate(year, monthIndex + 1, 0))
        body == LeadingCells(startWeekday + 1)
                    \o DayCells(year, monthIndex, daysInMonth, ref)
    IN body \o TrailingCells(Len(body))

CalendarCells(ref) ==
    LET year == getFullYear(ref)
        monthIndex == getMonth(ref)
        startWeekday == getDay(NewDate(year, monthIndex, 1))
        daysInMonth == getDate(NewDate(year, monthIndex + 1, 0))
        body == LeadingCells(startWeekday)
                    \o DayCells(year, monthIndex, daysInMonth, ref)
    IN body \o TrailingCells(Len(body))

Calendar(ref) ==
    [computed |-> TRUE,
     label |-> <<getFullYear(ref.time), "nyeon ", getMonth(ref.time) + 1, "wol">>,
     cells |-> CalendarCells(ref.time)]

(***************************************************************************)
(* JavaScript values of the /ask and calendar payloads, tagged by type.    *)
(* Text is a sequence of symbols; Cham stands for the two syllables of the *)
(* marker word, so the marker "Cham:" is the two symbols <<Cham, ":">>.    *)
(***************************************************************************)
Undefined == [t |-> "undefined"]
Null == [t |-> "null"]
Num(n) == [t |-> "number", v |-> n]
Str(s) == [t |-> "string", v |-> s]
Arr(a) == [t |-> "array", v |-> a]
Obj(o) == [t |-> "object", v |-> o]

Cham == "Cham"
Marker == <<Cham, ":">>

\* a ?? b
Coalesce(a, b) == IF a.t \in {"undefined", "null"} THEN b ELSE a

\* !!v
Truthy(v) ==
    CASE v.t \in {"undefined", "null"} -> FALSE
      [] v.t = "number" -> v.v # 0
      [] v.t = "string" -> v.v # <<>>
      [] OTHER -> TRUE

\* o.name, for an object o; property access on null or undefined throws.
Get(o, name) ==
    IF o.t = "object" /\ name \in DOMAIN o.v THEN o.v[name] ELSE Undefined

CanRead(o) == o.t \notin {"undefined", "null"}

\* text.includes(part)
Includes(text, part) ==
    \E i \in 1..(Len(text) - Len(part) + 1) :
        SubSeq(text, i, i + Len(part) - 1) = part

Digit(d) == <<"0", "1", "2", "3", "4", "5", "6", "7", "8", "9">>[d + 1]

RECURSIVE Decimal(_)
Decimal(n) == IF n < 10 THEN <<Digit(n)>> ELSE Decimal(n \div 10) \o <<Digit(n % 10)>>

\* `${v}` for a number or a string
Template(v) == IF v.t = "number" THEN Decimal(v.v) ELSE v.v

IsSpace(c) == c \in {" ", "\n"}

\* question.trim()
Trim(s) ==
    LET keep == { i \in 1..Len(s) : ~IsSpace(s[i]) }
    IN IF keep = {} THEN <<>>
       ELSE LET lo == CHOOSE i \in keep : \A j \in keep : i <= j
                hi == CHOOSE i \in keep : \A j \in keep : j <= i
            IN SubSeq(s, lo, hi)

\* reader.result of readAsDataURL(file)
DataUrl(file) == IF file = "a.png" THEN "data:a.png" ELSE "data:other"

Placeholder == <<"no response">>

ApologyText == <<"sorry, cannot reach the RAG server", "\n", "check the server and retry">>

\* The citation appended to the answer: two newlines, then one line.
Citation(pageNum) ==
    <<"\n", "\n", "(", Cham, ":", " manual p.">> \o Template(pageNum) \o <<" based answer)">>

\* data.answer ?? data.result ?? placeholder
AnswerText(body) ==
    Coalesce(Get(body, "answer"), Coalesce(Get(body, "result"), Str(Placeholder)))

IntentReminderDefault(body) == Coalesce(Get(body, "intent"), Str(<<"reminder">>))

\* data.intent ?? 'rag'
Intent(body) == Coalesce(Get(body, "intent"), Str(<<"rag">>))

IsReminder(body) == Intent(body) = Str(<<"reminder">>)

\* Array.isArray(data.pages) ? data.pages : []
Pages(body) ==
    LET p == Get(body, "pages") IN IF p.t = "array" THEN p.v ELSE <<>>

\* firstPage.page ?? firstPage.page_number
PageNum(firstPage) == Coalesce(Get(firstPage, "page"), Get(firstPage, "page_number"))

CitesPage(body) == ~IsReminder(body) /\ Len(Pages(body)) > 0

AddsCitationAlways(body) == Truthy(PageNum(Pages(body)[1]))

\* pageNum && !answerText.includes(marker)
AddsCitation(body) ==
    /\ Truthy(PageNum(Pages(body)[1]))
    /\ ~Includes(AnswerText(body).v, Marker)

\* The statements of the try block that throw a TypeError: reading a
\* property of a null payload or of a null first page, and calling includes
\* on an answer that is not a string.
ProcessingThrows(body) ==
    \/ ~CanRead(body)
    \/ /\ CitesPage(body)
       /\ \/ ~CanRead(Pages(body)[1])
          \/ /\ Truthy(PageNum(Pages(body)[1]))
             /\ AnswerText(body).t # "string"

DecoratedAnswer(body) ==
    IF CitesPage(body) /\ AddsCitation(body)
    THEN Str(AnswerText(body).v \o Citation(PageNum(Pages(body)[1])))
    ELSE AnswerText(body)

\* image_base64, then image_url ?? page_image ?? pageImage, then image_path
SourceImage(body) ==
    IF ~CitesPage(body) THEN Null
    ELSE LET firstPage == Pages(body)[1]
             pageImageBase64 == Coalesce(Get(firstPage, "image_base64"), Null)
             pageImageUrl ==
                 Coalesce(Get(firstPage, "image_url"),
                    Coalesce(Get(firstPage, "page_image"),
                        Coalesce(Get(firstPage, "pageImage"), Null)))
             pageImagePath == Coalesce(Get(firstPage, "image_path"), Null)
         IN IF Truthy(pageImageBase64) THEN pageImageBase64
            ELSE IF Truthy(pageImageUrl) THEN pageImageUrl
            ELSE IF Truthy(pageImagePath) THEN pageImagePath
            ELSE Null

AgentMessage(body) ==
    [role |-> "agent",
     name |-> "Mindual",
     content |-> DecoratedAnswer(body),
     variant |-> IF IsReminder(body) THEN Str(<<"reminder">>) ELSE Undefined,
     sourceImage |-> SourceImage(body)]

\* The message of the catch block: no variant and no sourceImage field.
ApologyMessage ==
    [role |-> "agent", name |-> "Mindual", content |-> Str(ApologyText)]

UserMessage(trimmed, file, preview) ==
    [role |-> "user",
     name |-> "me",
     content |-> Str(IF trimmed # <<>> THEN trimmed
                     ELSE IF file # NULL THEN <<"(image sent: ", file, ")">>
                     ELSE <<"(image sent)">>),
     imageUrl |-> IF file # NULL THEN preview ELSE NULL]

PrependMessage(prev, m) == <<m>> \o prev

\* setMessages((prev) => [...prev, m])
AppendMessage(prev, m) == Append(prev, m)

\* The transient row rendered after the stored messages while loading.
ThinkingRow == [role |-> "agent", name |-> "Mindual", thinking |-> TRUE]

\* The rows of the chat window: messages.map(...), then the loading row.
Rows(msgs, isLoading) == msgs \o (IF isLoading THEN <<ThinkingRow>> ELSE <<>>)

\* What a fetch of /ask delivers: a rejected promise, a status, a body that
\* does not parse, or a parsed body.
FetchFails(r) == r.kind = "network error"
NotOk(r) == r.kind = "status" /\ ~r.ok
ParseFails(r) == r.kind = "unparsable"

AskThrowsOnlyOnFetch(r) == FetchFails(r) \/ NotOk(r) \/ ParseFails(r)

\* The try block of handleSubmit ends in the catch block.
AskThrows(r) ==
    FetchFails(r) \/ NotOk(r) \/ ParseFails(r) \/ ProcessingThrows(r.body)

\* fetchEvents: data.events || [] on success, [] on any failure.
EventsOf(r) ==
    IF r.kind # "json" \/ ~CanRead(r.body) THEN <<>>
    ELSE LET e == Get(r.body, "events") IN IF Truthy(e) THEN e.v ELSE <<>>

calVars == <<now, today, calendar>>

vars == <<now, today, calendar, messages, question, loading, imageFile,
          imagePreviewUrl, inputValue, calendarEvents, readers, askReqs,
          calReqs, pc, lastEvent>>

(***************************************************************************)
(* Inputs.                                                                 *)
(***************************************************************************)
Files == {"a.png"}

RECURSIVE TextsUpTo(_)
TextsUpTo(n) ==
    IF n = 0 THEN {<<>>}
    ELSE LET shorter == TextsUpTo(n - 1)
         IN shorter \cup { Append(t, c) : t \in shorter, c \in {" ", "q"} }

Questions == TextsUpTo(MaxQuestionLen)

Page7 == Obj([page |-> Num(7), image_url |-> Str(<<"/manual_images/7.png">>)])

AskResponses ==
    { [kind |-> "network error"],
      [kind |-> "status", ok |-> FALSE],
      [kind |-> "unparsable"],
      [kind |-> "json", body |-> Null],
      [kind |-> "json", body |-> Obj([answer |-> Str(<<"a">>), pages |-> Arr(<<Page7>>)])],
      [kind |-> "json", body |-> Obj([answer |-> Str(<<"set">>), intent |-> Str(<<"reminder">>)])] }

\* Every shape of /ask outcome: the optional fields of the body and of its
\* first cited page present or absent, one by one.
AnswerValues ==
    { Undefined, Null, Num(42), Str(<<"a">>), Str(<<"a", Cham, ":", "b">>),
      Str(<<Cham, "a", ":">>) }

ResultValues == { Undefined, Str(<<"r">>) }

IntentValues ==
    { Undefined, Null, Str(<<"rag">>), Str(<<"reminder">>), Str(<<"smalltalk">>) }

PageObjects ==
    { Obj(o) : o \in
        [page : { Undefined, Null, Num(0), Num(7), Num(12), Str(<<"7">>) },
         page_number : { Undefined, Num(3) },
         image_base64 : { Undefined, Str(<<"data:image/png;base64,AAAA">>) },
         image_url : { Undefined, Str(<<"https://x/y.png">>) },
         image_path : { Undefined, Str(<<"/local/p.png">>) }] }

PagesValues ==
    { Undefined, Arr(<<>>), Arr(<<Null>>), Arr(<<Page7, Obj([page |-> Num(0)])>>) }
        \cup { Arr(<<pg>>) : pg \in PageObjects }

AllAskResponses ==
    { [kind |-> "network error"],
      [kind |-> "status", ok |-> FALSE],
      [kind |-> "unparsable"],
      [kind |-> "json", body |-> Null] }
        \cup { [kind |-> "json", body |-> Obj(o)] : o \in
                 [answer : AnswerValues, result : ResultValues,
                  intent : IntentValues, pages : PagesValues] }

Event1 == Obj([id |-> Str(<<"1">>), date |-> Str(<<2024, "-", 0, 2, "-", 2, 9>>)])

CalResponses ==
    { [kind |-> "network error"],
      [kind |-> "status", ok |-> FALSE],
      [kind |-> "unparsable"],
      [kind |-> "json", body |-> Obj([error |-> Null])],
      [kind |-> "json", body |-> Obj([events |-> Arr(<<Event1>>)])] }

Event(name) == [name |-> name]

Delivered(name, r) == [name |-> name, input |-> r]

Answered == Len(SelectSeq(messages, LAMBDA m : m.role = "agent"))

(***************************************************************************)
(* The state after the first render and its mount effects: the calendar    *)
(* is computed and the mount-time fetchEvents() is in flight.              *)
(***************************************************************************)
AppInit ==
    /\ messages = <<>>
    /\ question = <<>>
    /\ loading = FALSE
    /\ imageFile = NULL
    /\ imagePreviewUrl = NULL
    /\ inputValue = ""
    /\ calendarEvents = <<>>
    /\ readers = [f \in Files |-> 0]
    /\ askReqs = <<>>
    /\ calReqs = {"mount"}
    /\ pc = "idle"
    /\ lastEvent = Event("mount")

Init ==
    /\ now = [year |-> 2024, month |-> 1, day |-> 29]
    /\ today = Today(now)
    /\ calendar = Calendar(today)
    /\ AppInit

\* textarea onChange; the textarea is disabled while loading.
SetQuestion ==
    /\ ~loading
    /\ \E q \in Questions : q # question /\ question' = q
    /\ lastEvent' = Event("change")
    /\ UNCHANGED <<messages, loading, imageFile, imagePreviewUrl, inputValue,
                   calendarEvents, readers, askReqs, calReqs, pc>>

\* The attach button is disabled while loading or while a file is attached.
handleFileChange ==
    /\ ~loading
    /\ imageFile = NULL
    /\ \E file \in Files \cup {NULL} :
          /\ imageFile' = file
          /\ IF file # NULL
             THEN /\ readers[file] < MaxReaders
                  /\ readers' = [readers EXCEPT ![file] = @ + 1]
                  /\ inputValue' = file
                  /\ UNCHANGED imagePreviewUrl
             ELSE /\ imagePreviewUrl' = NULL
                  /\ inputValue' = ""
                  /\ UNCHANGED readers
    /\ lastEvent' = Event("fileChange")
    /\ UNCHANGED <<messages, question, loading, calendarEvents, askReqs,
                   calReqs, pc>>

\* reader.onloadend: reader.result is the data URL, or null when the read failed.
ReaderLoadEnd ==
    /\ \E file \in Files, ok \in BOOLEAN :
          /\ readers[file] > 0
          /\ readers' = [readers EXCEPT ![file] = @ - 1]
          /\ imagePreviewUrl' = IF ok THEN DataUrl(file) ELSE NULL
    /\ lastEvent' = Event("loadend")
    /\ UNCHANGED <<messages, question, loading, imageFile, inputValue,
                   calendarEvents, askReqs, calReqs, pc>>

\* The remove button is rendered only while a preview is shown.
handleRemoveImage ==
    /\ imagePreviewUrl # NULL
    /\ imageFile' = NULL
    /\ imagePreviewUrl' = NULL
    /\ inputValue' = ""
    /\ lastEvent' = Event("removeImage")
    /\ UNCHANGED <<messages, question, loading, calendarEvents, readers,
                   askReqs, calReqs, pc>>

SubmitRejectedIgnoresLoading == Trim(question) = <<>> /\ imageFile = NULL

SubmitRejectedUntrimmed == (question = <<>> /\ imageFile = NULL) \/ loading

\* (!trimmed && !imageFile) || loading
SubmitRejected == (Trim(question) = <<>> /\ imageFile = NULL) \/ loading

\* finally: setLoading(false), setImageFile(null), input value cleared.
Finally ==
    /\ loading' = FALSE
    /\ imageFile' = NULL
    /\ inputValue' = ""
    /\ pc' = "idle"

\* A submit event (the form's onSubmit, or Enter in the textarea), up to
\* the first await.
handleSubmit ==
    /\ lastEvent' = Event("submit")
    /\ IF SubmitRejected
       THEN UNCHANGED <<messages, question, loading, imageFile, imagePreviewUrl,
                        inputValue, calendarEvents, readers, askReqs, calReqs,
                        pc>>
       ELSE /\ Answered < MaxSubmissions
            /\ messages' = AppendMessage(messages,
                              UserMessage(Trim(question), imageFile, imagePreviewUrl))
            /\ question' = <<>>
            /\ loading' = TRUE
            /\ imagePreviewUrl' = NULL
            /\ askReqs' = Append(askReqs,
                              [query |-> Trim(question), k |-> "5", file |-> imageFile])
            /\ pc' = "ask"
            /\ UNCHANGED <<imageFile, inputValue, calendarEvents, readers,
                           calReqs>>

RefreshEventsNoAwait ==
    /\ calReqs' = calReqs \cup {"submit"}
    /\ Finally

\* await fetchEvents(): the request is issued and handleSubmit is suspended.
RefreshEvents ==
    /\ calReqs' = calReqs \cup {"submit"}
    /\ pc' = "events"
    /\ UNCHANGED <<loading, imageFile, inputValue>>

\* The /ask fetch settles with r and handleSubmit runs on to its next await
\* or to its end.
AskResponse(r) ==
    /\ pc = "ask"
    /\ askReqs # <<>>
    /\ askReqs' = Tail(askReqs)
    /\ lastEvent' = Delivered("askResponse", r)
    /\ IF AskThrows(r)
       THEN /\ messages' = AppendMessage(messages, ApologyMessage)
            /\ Finally
            /\ UNCHANGED calReqs
       ELSE /\ messages' = AppendMessage(messages, AgentMessage(r.body))
            /\ IF IsReminder(r.body)
               THEN RefreshEvents
               ELSE /\ Finally
                    /\ UNCHANGED calReqs
    /\ UNCHANGED <<question, imagePreviewUrl, calendarEvents, readers>>

AskSettles == \E r \in AskResponses : AskResponse(r)

\* The mount-time fetchEvents() settles.
MountEventsSettle ==
    /\ "mount" \in calReqs
    /\ calReqs' = calReqs \ {"mount"}
    /\ \E r \in CalResponses :
          /\ calendarEvents' = EventsOf(r)
          /\ lastEvent' = Delivered("mountEvents", r)
    /\ UNCHANGED <<messages, question, loading, imageFile, imagePreviewUrl,
                   inputValue, readers, askReqs, pc>>

\* The fetchEvents() awaited by handleSubmit settles, and handleSubmit ends.
SubmitEventsSettle ==
    /\ pc = "events"
    /\ "submit" \in calReqs
    /\ calReqs' = calReqs \ {"submit"}
    /\ \E r \in CalResponses :
          /\ calendarEvents' = EventsOf(r)
          /\ lastEvent' = Delivered("submitEvents", r)
    /\ Finally
    /\ UNCHANGED <<messages, question, imagePreviewUrl, readers, askReqs>>

Next ==
    \/ (SetQuestion /\ UNCHANGED calVars)
    \/ (handleFileChange /\ UNCHANGED calVars)
    \/ (ReaderLoadEnd /\ UNCHANGED calVars)
    \/ (handleRemoveImage /\ UNCHANGED calVars)
    \/ (handleSubmit /\ UNCHANGED calVars)
    \/ (AskSettles /\ UNCHANGED calVars)
    \/ (MountEventsSettle /\ UNCHANGED calVars)
    \/ (SubmitEventsSettle /\ UNCHANGED calVars)

Spec == Init /\ [][Next]_vars

(***************************************************************************)
(* One submission in flight, answered by every shape of response: the      *)
(* state right after the question "q" was submitted, the mount-time fetch  *)
(* settled or not.                                                         *)
(***************************************************************************)
InitResponse ==
    /\ now = [year |-> 2024, month |-> 1, day |-> 29]
    /\ today = Today(now)
    /\ calendar = Calendar(today)
    /\ messages = <<UserMessage(<<"q">>, NULL, NULL)>>
    /\ question = <<>>
    /\ loading = TRUE
    /\ imageFile = NULL
    /\ imagePreviewUrl = NULL
    /\ inputValue = ""
    /\ \/ calReqs = {"mount"} /\ calendarEvents = <<>>
       \/ calReqs = {} /\ calendarEvents \in {<<>>, <<Event1>>}
    /\ readers = [f \in Files |-> 0]
    /\ askReqs = <<[query |-> <<"q">>, k |-> "5", file |-> NULL]>>
    /\ pc = "ask"
    /\ lastEvent = Event("submit")

AskSettlesAny == \E r \in AllAskResponses : AskResponse(r)

NextResponse ==
    \/ (AskSettlesAny /\ UNCHANGED calVars)
    \/ (MountEventsSettle /\ UNCHANGED calVars)
    \/ (SubmitEventsSettle /\ UNCHANGED calVars)

SpecResponse == InitResponse /\ [][NextResponse]_vars

(***************************************************************************)
(* The calendar widget alone: the clock is any date, the two memoized      *)
(* values are computed in turn.                                            *)
(***************************************************************************)
InitCal ==
    /\ now \in ClockDates
    /\ today = NotComputed
    /\ calendar = NotComputed
    /\ AppInit

appVars == <<messages, question, loading, imageFile, imagePreviewUrl, inputValue,
             calendarEvents, readers, askReqs, calReqs, pc, lastEvent>>

ComputeToday ==
    /\ today = NotComputed
    /\ today' = Today(now)
    /\ UNCHANGED <<now, calendar>>
    /\ UNCHANGED appVars

ComputeCalendar ==
    /\ today # NotComputed
    /\ calendar = NotComputed
    /\ calendar' = Calendar(today)
    /\ UNCHANGED <<now, today>>
    /\ UNCHANGED appVars

NextCal == ComputeToday \/ ComputeCalendar

SpecCal == InitCal /\ [][NextCal]_vars

(***************************************************************************)
(* Properties of the submission flow.                                      *)
(***************************************************************************)
Last(seq) == seq[Len(seq)]

IsPrefix(a, b) == Len(a) <= Len(b) /\ SubSeq(b, 1, Len(a)) = a

OnlyWhitespace(text) == \A i \in 1..Len(text) : text[i] \in {" ", "\n"}

\* C1: a submit event that arrives while a submission is in flight changes
\* nothing (no message appended, no /ask request issued, no state changed),
\* and in every reachable state at most one /ask request is outstanding.
SubmitInFlightIsNoOp ==
    /\ [](Len(askReqs) <= 1)
    /\ [][(loading /\ lastEvent'.name = "submit") =>
            UNCHANGED <<messages, question, loading, imageFile, imagePreviewUrl,
                        inputValue, calendarEvents, readers, askReqs, calReqs,
                        pc>>]_vars

\* A submit event was handled while the /ask request of an earlier one, with
\* its file already previewed again, was still outstanding.
SubmitArrivedInFlight ==
    /\ pc = "ask"
    /\ Len(askReqs) = 1
    /\ lastEvent.name = "submit"
    /\ imagePreviewUrl # NULL

\* C2: a submit event with only whitespace in the question and no attached
\* file leaves the messages, the loading flag, the question, the attached
\* file and the preview unchanged and issues no /ask request.
EmptySubmitIsNoOp ==
    [][(lastEvent'.name = "submit" /\ OnlyWhitespace(question) /\ imageFile = NULL) =>
         UNCHANGED <<messages, question, loading, imageFile, imagePreviewUrl,
                     askReqs>>]_vars

\* A submit event was handled with a blank, non-empty question and no file.
BlankSubmitHandled ==
    /\ ~loading
    /\ lastEvent.name = "submit"
    /\ question = <<" ">>
    /\ imageFile = NULL
    /\ messages = <<>>

\* The /ask outcomes of the failure path.
Failed(r) ==
    \/ r.kind \in {"network error", "unparsable"}
    \/ r.kind = "status" /\ ~r.ok
    \/ r.kind = "json" /\ ProcessingThrows(r.body)

Alternates(msgs) ==
    \A i \in 1..Len(msgs) : msgs[i].role = IF i % 2 = 1 THEN "user" ELSE "agent"

\* C3: when the /ask request of an accepted submission fails (non-2xx,
\* network failure, unparsable body, or an error while the payload is
\* processed), exactly one agent message is appended for it, with the fixed
\* apology as content and no sourceImage; no answer message comes with it.
FailureAppendsOneApology ==
    /\ [](Alternates(messages) /\ Len(messages) % 2 = (IF pc = "ask" THEN 1 ELSE 0))
    /\ [][(pc = "ask" /\ pc' # "ask" /\ Failed(lastEvent'.input)) =>
            /\ Len(messages') = Len(messages) + 1
            /\ IsPrefix(messages, messages')
            /\ Last(messages').role = "agent"
            /\ Last(messages').content = Str(ApologyText)
            /\ "sourceImage" \notin DOMAIN Last(messages')
            /\ pc' = "idle"]_vars

\* A parsed null body made the payload processing throw, and the apology
\* closed the submission.
ApologyAfterProcessingError ==
    /\ pc = "idle"
    /\ lastEvent = Delivered("askResponse", [kind |-> "json", body |-> Null])
    /\ Len(messages) = 2
    /\ Last(messages).content = Str(ApologyText)

\* C4: the stored sequence only grows at its end: every step keeps the old
\* sequence as a prefix of the new one, and the transient thinking row is
\* rendered after the stored messages but is never one of them.
MessagesAppendOnly ==
    /\ [](\A i \in 1..Len(messages) : messages[i] # ThinkingRow)
    /\ [](Len(Rows(messages, loading)) = Len(messages) + (IF loading THEN 1 ELSE 0))
    /\ [][IsPrefix(messages, messages')]_vars

\* A submission was answered with its user message still in place.
AnswerFollowsQuestion ==
    /\ pc = "idle"
    /\ Len(messages) = 2
    /\ messages[1].role = "user"
    /\ messages[2].role = "agent"

ReminderSuccess(r) ==
    /\ r.kind = "json"
    /\ ~ProcessingThrows(r.body)
    /\ Get(r.body, "intent") = Str(<<"reminder">>)

\* C5: after a successful reminder response the agent message is appended,
\* the calendar refresh is started, and loading stays true until that
\* refresh has settled (events replaced, or cleared on failure); the
\* settling returns to idle and appends no message, apology included.
ReminderAwaitsRefresh ==
    /\ []("submit" \in calReqs => (loading /\ pc = "events"))
    /\ [](pc = "events" =>
            /\ "submit" \in calReqs
            /\ Last(messages).role = "agent"
            /\ Last(messages).variant = Str(<<"reminder">>))
    /\ [][(pc = "ask" /\ pc' # "ask" /\ ReminderSuccess(lastEvent'.input)) =>
            /\ pc' = "events"
            /\ loading'
            /\ "submit" \in calReqs'
            /\ Len(messages') = Len(messages) + 1]_vars
    /\ [][(pc = "events" /\ pc' # "events") =>
            /\ pc' = "idle"
            /\ ~loading'
            /\ "submit" \notin calReqs'
            /\ messages' = messages
            /\ lastEvent'.name = "submitEvents"
            /\ (lastEvent'.input.kind # "json" => calendarEvents' = <<>>)
            /\ (/\ lastEvent'.input.kind = "json"
                /\ Get(lastEvent'.input.body, "events").t = "array") =>
                    calendarEvents' = Get(lastEvent'.input.body, "events").v]_vars

\* The refresh of a reminder failed on the network and the submission ended
\* with the reminder message last.
ReminderRefreshFailed ==
    /\ pc = "idle"
    /\ ~loading
    /\ lastEvent = Delivered("submitEvents", [kind |-> "network error"])
    /\ calendarEvents = <<>>
    /\ Last(messages).variant = Str(<<"reminder">>)

\* C6: in the state right after a submission leaves submitting, the attached
\* file is null and the image preview is null.
SubmissionLeavesNoPreview ==
    [][(loading /\ ~loading') => (imageFile' = NULL /\ imagePreviewUrl' = NULL)]_vars

WithIntent(body, intent) == Obj([body.v EXCEPT !.intent = intent])

\* C7: a successful response with intent "reminder" appends a message of
\* variant "reminder" and starts the refresh, whose parsed events replace
\* the calendar event list; a response with intent absent leaves the same
\* messages and state as the same response with intent "rag" (no reminder
\* variant, no calendar refresh).
ReminderAndDefaultIntent ==
    /\ (lastEvent.name = "askResponse" /\ ReminderSuccess(lastEvent.input)) =>
            /\ Last(messages).variant = Str(<<"reminder">>)
            /\ "submit" \in calReqs
            /\ loading
    /\ (/\ lastEvent.name = "submitEvents"
        /\ lastEvent.input.kind = "json"
        /\ Get(lastEvent.input.body, "events").t = "array") =>
            calendarEvents = Get(lastEvent.input.body, "events").v
    /\ (/\ lastEvent.name = "askResponse"
        /\ lastEvent.input.kind = "json"
        /\ lastEvent.input.body.t = "object"
        /\ Get(lastEvent.input.body, "intent") = Undefined) =>
            LET rag == WithIntent(lastEvent.input.body, Str(<<"rag">>))
            IN /\ Last(messages) =
                    (IF ProcessingThrows(rag) THEN ApologyMessage ELSE AgentMessage(rag))
               /\ (~ProcessingThrows(rag) => Last(messages).variant = Undefined)
               /\ Len(messages) = 2
               /\ pc = "idle"
               /\ ~loading
               /\ "submit" \notin calReqs

\* The refresh of a reminder delivered one event, now the calendar's list.
ReminderEventsReplaced ==
    /\ lastEvent.name = "submitEvents"
    /\ calendarEvents = <<Event1>>
    /\ Last(messages).variant = Str(<<"reminder">>)
    /\ pc = "idle"

\* The page number the claim speaks of: page, else page_number.
ClaimedPage(firstPage) ==
    IF Get(firstPage, "page").t \notin {"undefined", "null"}
    THEN Get(firstPage, "page") ELSE Get(firstPage, "page_number")

\* A successful non-reminder response that cites a page.
CitingSuccess(r) ==
    /\ r.kind = "json"
    /\ ~ProcessingThrows(r.body)
    /\ Get(r.body, "intent") # Str(<<"reminder">>)
    /\ Get(r.body, "pages").t = "array"
    /\ Len(Get(r.body, "pages").v) > 0

\* content is answer, a blank line, and one last line naming page p.
EndsWithCitation(content, answer, p) ==
    LET line == SubSeq(content, Len(answer) + 3, Len(content))
    IN /\ Len(content) > Len(answer) + 2
       /\ SubSeq(content, 1, Len(answer) + 2) = answer \o <<"\n", "\n">>
       /\ \A i \in 1..Len(line) : line[i] # "\n"
       /\ Includes(line, <<" manual p.">> \o Template(p))

OneCalendarFetchAtATime == Cardinality(calReqs) <= 1

\* Indices (1-based) of the real cells of the grid.
RealCells(cells) == { i \in 1..Len(cells) : cells[i] # NullCell }

FirstReal(cells) == CHOOSE i \in RealCells(cells) : \A j \in RealCells(cells) : i <= j

\* C9: for every reference date the grid's length is a multiple of 7, the
\* real cells are exactly the days 1..n of the month in ascending order (n the
\* number of days of that month, leap years included), and the first real
\* cell sits in the column of the weekday of day 1 (Sunday = 0).
GridMatchesMonth ==
    calendar # NotComputed =>
        LET cells == calendar.cells
            n == RefDaysInMonth(now.year, now.month)
            first == FirstReal(cells)
        IN /\ Len(cells) % 7 = 0
           /\ Cardinality(RealCells(cells)) = n
           /\ \A i \in RealCells(cells) : cells[i].label = i - first + 1
           /\ (first - 1) % 7 = RefWeekday(now.year, now.month, 1)

\* The grid of February 2024 was built from the 29th: five whole weeks.
GridBuiltForLeapFebruary ==
    /\ calendar # NotComputed
    /\ now.month = 1
    /\ now.year = 2024
    /\ now.day = 29
    /\ Len(calendar.cells) = 35
====
